---- MODULE Spec2Model ----
(***************************************************************************)
(* Metric evaluation of sims_maf: the reducers of metrics/simpleMetrics.py *)
(* and the gap histograms of metrics/tgaps.py, run by a driver on one data *)
(* slice at a time.                                                        *)
(*                                                                         *)
(* A data slice is modelled by the one column the metric reads             *)
(* (dataSlice[self.colname]), a sequence of integers.  Numbers that are    *)
(* not integers (means, cutoffs, bin edges) are exact rationals; a         *)
(* standard deviation is kept as the square root of an exact rational.     *)
(* Angles are counted on a grid of pi/AngleRes radians, so that 2 pi is    *)
(* the integer twopi.                                                      *)
(***************************************************************************)
EXTENDS Integers, Sequences, FiniteSets

(* ------------------------------ bounds -------------------------------- *)

\* Most rows of a slice handed to a scalar metric or a gap histogram.
MaxLen == 4
\* Largest value of a generic column; the values are -1..MaxVal.
MaxVal == 2
\* Observation times are the multiples of ten days 0, 10, .., 10*MaxTime.
MaxTime == 4
\* Nights are 0..MaxNight.
MaxNight == 3
\* Most rows of a slice of angles.
MaxAngleLen == 3
\* Grid steps per pi radians.
AngleRes == 3

(* ---------------------------- rationals ------------------------------- *)

Abs(x) == IF x < 0 THEN -x ELSE x

RECURSIVE GCD(_, _)
GCD(a, b) == IF b = 0 THEN a ELSE GCD(b, a % b)

\* The rational n/d (d # 0) in lowest terms with a positive denominator.
Rat(n, d) ==
    LET g == GCD(Abs(n), Abs(d))
        s == IF d < 0 THEN -1 ELSE 1
    IN  [n |-> (s * n) \div g, d |-> (s * d) \div g]

FromInt(x) == [n |-> x, d |-> 1]
RAdd(a, b) == Rat(a.n * b.d + b.n * a.d, a.d * b.d)
RSub(a, b) == Rat(a.n * b.d - b.n * a.d, a.d * b.d)
RMul(a, b) == Rat(a.n * b.n, a.d * b.d)
RDiv(a, b) == Rat(a.n * b.d, a.d * b.n)
RLt(a, b) == a.n * b.d < b.n * a.d
RLe(a, b) == a.n * b.d <= b.n * a.d
RSign(a) == IF a.n > 0 THEN 1 ELSE IF a.n < 0 THEN -1 ELSE 0

\* l > k * sqrt(v) for rationals l, k and v >= 0, decided on the squares.
GtSqrt(l, k, v) ==
    LET l2 == RMul(l, l)
        k2v == RMul(RMul(k, k), v)
    IN  IF RSign(k) >= 0
        THEN RSign(l) > 0 /\ RLt(k2v, l2)
        ELSE RSign(l) > 0 \/ RLt(l2, k2v)

\* l < k * sqrt(v).
LtSqrt(l, k, v) == GtSqrt(RSub(FromInt(0), l), RSub(FromInt(0), k), v)

(* ------------------------- values a run yields ------------------------- *)

\* No run has returned yet.
None == [t |-> "none"]
\* An exact number.
Num(q) == [t |-> "num", n |-> q.n, d |-> q.d]
Int_(x) == Num(FromInt(x))
\* The square root of the rational q >= 0.
Sqrt(q) == [t |-> "sqrt", n |-> q.n, d |-> q.d]
\* Floating-point not-a-number.
NaN == [t |-> "nan"]
\* An exception leaves run; there is no return value.
Raise(exc) == [t |-> "raise", exc |-> exc]
\* Floating-point minus infinity.
NegInf == [t |-> "-inf"]
\* A vector of bin counts.
Hist(counts) == [t |-> "hist", counts |-> counts]

IsRaise(v) == v.t = "raise"
AsRat(v) == [n |-> v.n, d |-> v.d]

(* ------------------------------ numpy ---------------------------------- *)

\* The sum of a[lo..hi], by halves.
RECURSIVE SumRange(_, _, _)
SumRange(a, lo, hi) ==
    IF lo > hi THEN 0
    ELSE IF lo = hi THEN a[lo]
    ELSE LET mid == (lo + hi) \div 2
         IN  SumRange(a, lo, mid) + SumRange(a, mid + 1, hi)

SumSeq(a) == SumRange(a, 1, Len(a))

RECURSIVE Flatten(_)
Flatten(ss) == IF Len(ss) = 0 THEN <<>> ELSE Head(ss) \o Flatten(Tail(ss))

\* Insert x into the ascending sequence s after the elements <= x.
RECURSIVE Insert(_, _)
Insert(s, x) ==
    IF Len(s) = 0 THEN <<x>>
    ELSE IF x < Head(s) THEN <<x>> \o s
    ELSE <<Head(s)>> \o Insert(Tail(s), x)

RECURSIVE Sorted(_)
Sorted(a) == IF Len(a) = 0 THEN <<>> ELSE Insert(Sorted(Tail(a)), Head(a))

\* Faulty variant (a.sort() in place of np.sort(a)): the argument is reordered.
np_sort_inplace(a) == [out |-> Sorted(a), a |-> Sorted(a)]
\* np.sort(a): an ascending copy; the argument keeps its rows and order.
\* out is the returned array, a the argument as it is after the call.
np_sort(a) == [out |-> Sorted(a), a |-> a]

\* np.argsort(a): the (1-based) indices that sort a, ties in index order.
np_argsort(a) ==
    LET before(i, j) == a[i] < a[j] \/ (a[i] = a[j] /\ i < j)
        rank(i) == Cardinality({j \in 1..Len(a) : before(j, i)}) + 1
    IN  [p \in 1..Len(a) |-> CHOOSE i \in 1..Len(a) : rank(i) = p]

\* a[idx] for an index array idx: a new array.
Take(a, idx) == [p \in 1..Len(idx) |-> a[idx[p]]]

\* np.unique(a): the distinct values, ascending.
RECURSIVE Dedup(_)
Dedup(s) ==
    IF Len(s) <= 1 THEN s
    ELSE IF s[1] = s[2] THEN Dedup(Tail(s))
    ELSE <<Head(s)>> \o Dedup(Tail(s))

np_unique(a) == Dedup(Sorted(a))

\* np.diff(a): a[i+1] - a[i]; empty for fewer than two elements.
np_diff(a) == [i \in 1..(IF Len(a) = 0 THEN 0 ELSE Len(a) - 1) |-> a[i + 1] - a[i]]

\* np.roll(a, i): the element at 0-based position j comes from (j - i) mod N.
np_roll(a, i) == [j \in 1..Len(a) |-> a[((j - 1 - i) % Len(a)) + 1]]

\* x[i:] for a 0-based start i.
From(x, i) == SubSeq(x, i + 1, Len(x))

\* np.concatenate(list): ValueError for an empty list of arrays.
np_concatenate(list) ==
    IF Len(list) = 0 THEN Raise("ValueError") ELSE [t |-> "array", a |-> Flatten(list)]

\* np.histogram(d, bins): the count per bin [bins[k], bins[k+1]), the last
\* bin also holding its right edge; values outside the edges are dropped.
np_histogram(d, bins) ==
    LET nb == Len(bins) - 1
        inbin(x, k) ==
            /\ RLe(bins[k], FromInt(x))
            /\ IF k = nb THEN RLe(FromInt(x), bins[k + 1])
                         ELSE RLt(FromInt(x), bins[k + 1])
    IN  [k \in 1..nb |-> Cardinality({i \in 1..Len(d) : inbin(d[i], k)})]

MaxOf(a) == CHOOSE x \in {a[i] : i \in 1..Len(a)} : \A i \in 1..Len(a) : a[i] <= x
MinOf(a) == CHOOSE x \in {a[i] : i \in 1..Len(a)} : \A i \in 1..Len(a) : x <= a[i]

\* np.max / np.min: ValueError on a zero-size array (no identity).
np_max(a) == IF Len(a) = 0 THEN Raise("ValueError") ELSE Int_(MaxOf(a))
np_min(a) == IF Len(a) = 0 THEN Raise("ValueError") ELSE Int_(MinOf(a))

\* np.mean: not-a-number (with a warning) on a zero-size array.
np_mean(a) == IF Len(a) = 0 THEN NaN ELSE Num(Rat(SumSeq(a), Len(a)))

\* The population variance (ddof = 0) of a non-empty array.
Variance(a) ==
    LET N == Len(a)
        S == SumSeq(a)
        Q == SumSeq([i \in 1..N |-> a[i] * a[i]])
    IN  Rat(N * Q - S * S, N * N)

\* np.std: the square root of the population variance; nan when empty.
np_std(a) == IF Len(a) = 0 THEN NaN ELSE Sqrt(Variance(a))

np_abs(a) == [i \in 1..Len(a) |-> Abs(a[i])]

\* np.percentile(a, q), linear interpolation between the order statistics
\* around the 0-based position q/100 * (N-1); IndexError on a zero-size array.
np_percentile(a, q) ==
    IF Len(a) = 0 THEN Raise("IndexError")
    ELSE LET s == Sorted(a)
             N == Len(a)
             lo == (q * (N - 1)) \div 100
             rem == (q * (N - 1)) % 100
             hi == IF lo + 1 < N THEN lo + 1 ELSE lo
         IN  Num(RAdd(FromInt(s[lo + 1]),
                      RMul(Rat(rem, 100), FromInt(s[hi + 1] - s[lo + 1]))))

\* np.median: the 50th percentile; nan (with a warning) on a zero-size array.
np_median(a) == IF Len(a) = 0 THEN NaN ELSE np_percentile(a, 50)

\* np.where(mask)[0]: the (1-based) indices where the mask is true, ascending.
np_where(mask) ==
    LET idx == {i \in 1..Len(mask) : mask[i]}
        nth(p) == CHOOSE i \in idx : Cardinality({j \in idx : j < i}) = p - 1
    IN  [p \in 1..Cardinality(idx) |-> nth(p)]

np_size(a) == Len(a)

(* ---------------------- metrics/simpleMetrics.py ----------------------- *)

\* 2 pi, in grid steps.
twopi == 2 * AngleRes

\* What a call of run leaves behind: the value it returns (or the exception
\* it raises) and the column array of the caller as it is after the call.
Ret(v, dataSlice) == [ret |-> v, dataSlice |-> dataSlice]

\* 1.25 * log10(sum(10 ** (0.8 * m5))).  The sum over no rows is 0 and
\* log10(0) is -inf (with a warning).  One row m gives 1.25 * 0.8 * m = m.
\* For more rows the logarithm has no exact value here: the result is kept
\* as the term coaddm5 of the values, which the sum does not order.
Coaddm5Metric_run(self, dataSlice) ==
    IF Len(dataSlice) = 0 THEN Ret(NegInf, dataSlice)
    ELSE IF Len(dataSlice) = 1 THEN Ret(Int_(dataSlice[1]), dataSlice)
    ELSE Ret([t |-> "coaddm5", of |-> Sorted(dataSlice)], dataSlice)

MaxMetric_run(self, dataSlice) == Ret(np_max(dataSlice), dataSlice)

MeanMetric_run(self, dataSlice) == Ret(np_mean(dataSlice), dataSlice)

MedianMetric_run(self, dataSlice) == Ret(np_median(dataSlice), dataSlice)

MedianAbsMetric_run(self, dataSlice) == Ret(np_median(np_abs(dataSlice)), dataSlice)

MinMetric_run(self, dataSlice) == Ret(np_min(dataSlice), dataSlice)

FullRangeMetric_run(self, dataSlice) ==
    LET hi == np_max(dataSlice)
        lo == np_min(dataSlice)
    IN  IF IsRaise(hi) THEN Ret(hi, dataSlice)
        ELSE IF IsRaise(lo) THEN Ret(lo, dataSlice)
        ELSE Ret(Num(RSub(AsRat(hi), AsRat(lo))), dataSlice)

RmsMetric_run(self, dataSlice) == Ret(np_std(dataSlice), dataSlice)

SumMetric_run(self, dataSlice) == Ret(Int_(SumSeq(dataSlice)), dataSlice)

CountUniqueMetric_run(self, dataSlice) ==
    Ret(Int_(np_size(np_unique(dataSlice))), dataSlice)

\* Faulty variant: counts the distinct values instead of the rows.
CountMetric_run_unique(self, dataSlice) ==
    Ret(Int_(np_size(np_unique(dataSlice))), dataSlice)
CountMetric_run(self, dataSlice) == Ret(Int_(Len(dataSlice)), dataSlice)

\* len / self.normVal, a float division: ZeroDivisionError for normVal = 0.
CountRatioMetric_run(self, dataSlice) ==
    IF self.normVal = 0 THEN Ret(Raise("ZeroDivisionError"), dataSlice)
    ELSE Ret(Num(Rat(Len(dataSlice), self.normVal)), dataSlice)

CountSubsetMetric_run(self, dataSlice) ==
    LET count == Len(np_where([i \in 1..Len(dataSlice) |-> dataSlice[i] = self.subset]))
    IN  Ret(Int_(count), dataSlice)

\* (P75 - P25) / 1.349; on a zero-size array the first np.percentile raises.
RobustRmsMetric_run(self, dataSlice) ==
    LET p75 == np_percentile(dataSlice, 75)
        p25 == np_percentile(dataSlice, 25)
    IN  IF IsRaise(p75) THEN Ret(p75, dataSlice)
        ELSE IF IsRaise(p25) THEN Ret(p25, dataSlice)
        ELSE LET iqr == RSub(AsRat(p75), AsRat(p25))
                 rms == RDiv(iqr, Rat(1349, 1000))
             IN  Ret(Num(rms), dataSlice)

\* np.max raises on a zero-size array before the division is reached.
MaxPercentMetric_run(self, dataSlice) ==
    LET mx == np_max(dataSlice)
    IN  IF IsRaise(mx) THEN Ret(mx, dataSlice)
        ELSE LET nMax == np_size(np_where(
                              [i \in 1..Len(dataSlice) |-> FromInt(dataSlice[i]) = AsRat(mx)]))
                 size == Len(dataSlice)
             IN  IF size = 0 THEN Ret(Raise("ZeroDivisionError"), dataSlice)
                 ELSE Ret(Num(RMul(Rat(nMax, size), FromInt(100))), dataSlice)

BinaryMetric_run(self, dataSlice) ==
    IF Len(dataSlice) > 0 THEN Ret(Int_(1), dataSlice)
    ELSE Ret(Int_(self.badval), dataSlice)

\* Faulty variant: > in place of >=.
FracAboveMetric_run_strict(self, dataSlice) ==
    LET good == np_where([i \in 1..Len(dataSlice) |->
                             RLt(self.cutoff, FromInt(dataSlice[i]))])
    IN  IF np_size(dataSlice) = 0 THEN Ret(Raise("ZeroDivisionError"), dataSlice)
        ELSE Ret(Num(RMul(Rat(np_size(good), np_size(dataSlice)), self.scale)), dataSlice)
\* np.size(good) / float(np.size(col)) is a division of Python numbers:
\* ZeroDivisionError when the slice has no rows.
FracAboveMetric_run(self, dataSlice) ==
    LET good == np_where([i \in 1..Len(dataSlice) |->
                             RLe(self.cutoff, FromInt(dataSlice[i]))])
    IN  IF np_size(dataSlice) = 0 THEN Ret(Raise("ZeroDivisionError"), dataSlice)
        ELSE LET fracAbove == Rat(np_size(good), np_size(dataSlice))
             IN  Ret(Num(RMul(fracAbove, self.scale)), dataSlice)

FracBelowMetric_run(self, dataSlice) ==
    LET good == np_where([i \in 1..Len(dataSlice) |->
                             RLe(FromInt(dataSlice[i]), self.cutoff)])
    IN  IF np_size(dataSlice) = 0 THEN Ret(Raise("ZeroDivisionError"), dataSlice)
        ELSE LET fracBelow == Rat(np_size(good), np_size(dataSlice))
             IN  Ret(Num(RMul(fracBelow, self.scale)), dataSlice)

PercentileMetric_run(self, dataSlice) ==
    LET pval == np_percentile(dataSlice, self.percentile)
    IN  Ret(pval, dataSlice)

\* boundary = mean + nSigma * std.  For a value x, x > boundary is
\* x - mean > nSigma * sqrt(variance), decided exactly.  On a zero-size
\* array mean and std are nan, nothing compares, and the count is 0.
AboveBoundary(x, med, nSigma, var) == GtSqrt(RSub(FromInt(x), med), FromInt(nSigma), var)
BelowBoundary(x, med, nSigma, var) == LtSqrt(RSub(FromInt(x), med), FromInt(nSigma), var)

\* Faulty variant: the boundary is taken with |nSigma|.
NoutliersNsigmaMetric_run_abs(self, dataSlice) ==
    IF Len(dataSlice) = 0 THEN Ret(Int_(0), dataSlice)
    ELSE LET med == AsRat(np_mean(dataSlice))
             var == Variance(dataSlice)
             k == Abs(self.nSigma)
             mask == [i \in 1..Len(dataSlice) |->
                         IF self.nSigma >= 0 THEN AboveBoundary(dataSlice[i], med, k, var)
                         ELSE BelowBoundary(dataSlice[i], med, k, var)]
         IN  Ret(Int_(Len(Take(dataSlice, np_where(mask)))), dataSlice)
NoutliersNsigmaMetric_run(self, dataSlice) ==
    IF Len(dataSlice) = 0 THEN Ret(Int_(0), dataSlice)
    ELSE LET med == AsRat(np_mean(dataSlice))
             var == Variance(dataSlice)
             mask == [i \in 1..Len(dataSlice) |->
                         IF self.nSigma >= 0
                         THEN AboveBoundary(dataSlice[i], med, self.nSigma, var)
                         ELSE BelowBoundary(dataSlice[i], med, self.nSigma, var)]
             outsiders == np_where(mask)
         IN  Ret(Int_(Len(Take(dataSlice, outsiders))), dataSlice)

\* _rotateAngles(angles): (rotation, rotated angles), or the exception.
\* angles[angleidx][-1] is an IndexError on a zero-size array.
RotationOf(sorted, maxdiff) ==
    IF maxdiff = Len(sorted) - 1 THEN sorted[1] ELSE sorted[maxdiff + 2]

\* Faulty variant: rotates to the first angle of the input, whatever the gaps.
rotateAngles_first(angles) ==
    IF Len(angles) = 0 THEN Raise("IndexError")
    ELSE [t |-> "tuple", rotation |-> angles[1],
          angles |-> [i \in 1..Len(angles) |-> (angles[i] - angles[1]) % twopi]]
\* Faulty variant: start_to_end <= 0 in place of < 0, so that angles spanning
\* exactly 2 pi are refused.
rotateAngles_le(angles) ==
    LET sorted == Take(angles, np_argsort(angles))
    IN  IF Len(sorted) = 0 THEN Raise("IndexError")
        ELSE LET start_to_end == twopi - sorted[Len(sorted)] + sorted[1]
                 diffangles == np_diff(sorted) \o <<start_to_end>>
                 where == np_where([i \in 1..Len(diffangles) |->
                                       diffangles[i] = MaxOf(diffangles)])
                 rotation == RotationOf(sorted, where[Len(where)] - 1)
             IN  IF start_to_end <= 0 THEN Raise("ValueError")
                 ELSE [t |-> "tuple", rotation |-> rotation,
                       angles |-> [i \in 1..Len(angles) |->
                                      (angles[i] - rotation) % twopi]]
rotateAngles(angles) ==
    LET angleidx == np_argsort(angles)
        sorted == Take(angles, angleidx)
    IN  IF Len(sorted) = 0 THEN Raise("IndexError")
        ELSE LET start_to_end == twopi - sorted[Len(sorted)] + sorted[1]
                 diffangles == np_diff(sorted) \o <<start_to_end>>
                 where == np_where([i \in 1..Len(diffangles) |->
                                       diffangles[i] = MaxOf(diffangles)])
                 \* the 0-based index of the last maximum
                 maxdiff == where[Len(where)] - 1
                 rotation == RotationOf(sorted, maxdiff)
             IN  IF start_to_end < 0 THEN Raise("ValueError")
                 ELSE [t |-> "tuple", rotation |-> rotation,
                       angles |-> [i \in 1..Len(angles) |->
                                      (angles[i] - rotation) % twopi]]

\* The mean direction of the unit vectors.  cos, sin and arctan2 have no
\* exact value here: on rows the result is kept as the term meanAngle(col).
\* On a zero-size array the means are nan, arctan2 and the radius are nan,
\* nan < 0.1 is false, and nan is returned.
MeanAngleMetric_run(self, dataSlice) ==
    IF Len(dataSlice) = 0 THEN Ret(NaN, dataSlice)
    ELSE Ret([t |-> "meanAngle", of |-> dataSlice], dataSlice)

RmsAngleMetric_run(self, dataSlice) ==
    LET r == rotateAngles(dataSlice)
    IN  IF IsRaise(r) THEN Ret(r, dataSlice)
        ELSE Ret(np_std(r.angles), dataSlice)

FullRangeAngleMetric_run(self, dataSlice) ==
    LET r == rotateAngles(dataSlice)
    IN  IF IsRaise(r) THEN Ret(r, dataSlice)
        ELSE Ret(Int_(MaxOf(r.angles) - MinOf(r.angles)), dataSlice)

(* --------------------------- metrics/tgaps.py -------------------------- *)

\* Faulty variant: the [i:] is missing, so the wrapped differences stay.
AllDiffs_noslice(times) ==
    [i \in 1..(Len(times) - 1) |->
        LET rolled == np_roll(times, i)
        IN  [j \in 1..Len(times) |-> times[j] - rolled[j]]]
\* allDiffs of the allGaps branch: for i = 1..N-1, (times - roll(times, i))[i:].
AllDiffs(times) ==
    [i \in 1..(Len(times) - 1) |->
        LET rolled == np_roll(times, i)
        IN  From([j \in 1..Len(times) |-> times[j] - rolled[j]], i)]

\* The gaps that are histogrammed: an array, or the exception of concatenate.
Gaps(sorted, allGaps) ==
    IF allGaps THEN np_concatenate(AllDiffs(sorted))
    ELSE [t |-> "array", a |-> np_diff(sorted)]

\* Faulty variant: the guard is size < 1.
TgapsMetric_run_norows(self, dataSlice) ==
    IF Len(dataSlice) < 1 THEN Ret(Int_(self.badval), dataSlice)
    ELSE LET dts == Gaps(Sorted(dataSlice), self.allGaps)
         IN  IF IsRaise(dts) THEN Ret(dts, dataSlice)
             ELSE Ret(Hist(np_histogram(dts.a, self.bins)), dataSlice)
TgapsMetric_run(self, dataSlice) ==
    IF Len(dataSlice) < 2 THEN Ret(Int_(self.badval), dataSlice)
    ELSE LET s == np_sort(dataSlice)
             times == s.out
             dts == Gaps(times, self.allGaps)
         IN  IF IsRaise(dts) THEN Ret(dts, s.a)
             ELSE LET result == np_histogram(dts.a, self.bins)
                  IN  Ret(Hist(result), s.a)

NightgapsMetric_run(self, dataSlice) ==
    IF Len(dataSlice) < 2 THEN Ret(Int_(self.badval), dataSlice)
    ELSE LET s == np_sort(np_unique(dataSlice))
             nights == s.out
             dnights == Gaps(nights, self.allGaps)
         IN  IF IsRaise(dnights) THEN Ret(dnights, dataSlice)
             ELSE LET result == np_histogram(dnights.a, self.bins)
                  IN  Ret(Hist(result), dataSlice)

(* ----------------------------- instances ------------------------------- *)

\* BaseMetric's default bad-value sentinel.
DefaultBadval == -666

\* A metric instance is its configuration: the class, badval and the
\* parameters its constructor stores.
SimpleKinds ==
    {"Coaddm5Metric", "MaxMetric", "MeanMetric", "MedianMetric", "MedianAbsMetric", "MinMetric", "FullRangeMetric", "RmsMetric", "SumMetric", "CountUniqueMetric", "CountMetric", "RobustRmsMetric", "MaxPercentMetric", "BinaryMetric"}
AngleKinds == {"MeanAngleMetric", "RmsAngleMetric", "FullRangeAngleMetric"}

\* TgapsMetric's default bins, np.arange(0.5, 60.0, 0.5).
TgapsDefaultBins == [i \in 1..119 |-> Rat(i, 2)]
\* NightgapsMetric's default bins, np.arange(0, 10, 1).
NightgapsDefaultBins == [i \in 1..10 |-> FromInt(i - 1)]
\* Bin edges a caller passes instead.
CallerBins == <<FromInt(5), FromInt(15), FromInt(30)>>

Cutoffs == {Rat(1, 2), FromInt(1)}
Scales == {FromInt(1), FromInt(100)}
Percentiles == {50, 90}
NSigmas == {-3, -1, 0, 1, 3}
NormVals == {1, 2}
Subsets == {0, 1}

Metrics ==
    {[kind |-> k, badval |-> DefaultBadval] : k \in SimpleKinds \cup AngleKinds}
    \cup {[kind |-> "CountRatioMetric", badval |-> DefaultBadval, normVal |-> v] :
             v \in NormVals}
    \cup {[kind |-> "CountSubsetMetric", badval |-> 0, subset |-> v] : v \in Subsets}
    \cup {[kind |-> k, badval |-> DefaultBadval, cutoff |-> c, scale |-> sc] :
             k \in {"FracAboveMetric", "FracBelowMetric"}, c \in Cutoffs, sc \in Scales}
    \cup {[kind |-> "PercentileMetric", badval |-> DefaultBadval, percentile |-> q] :
             q \in Percentiles}
    \cup {[kind |-> "NoutliersNsigmaMetric", badval |-> DefaultBadval, nSigma |-> k] :
             k \in NSigmas}
    \cup {[kind |-> "TgapsMetric", badval |-> DefaultBadval, bins |-> b, allGaps |-> g] :
             b \in {TgapsDefaultBins, CallerBins}, g \in BOOLEAN}
    \cup {[kind |-> "NightgapsMetric", badval |-> DefaultBadval,
           bins |-> NightgapsDefaultBins, allGaps |-> g] : g \in BOOLEAN}

(* ------------------------------ slices --------------------------------- *)

SeqsUpTo(S, n) == UNION {[1..k -> S] : k \in 0..n}

Vals == -1..MaxVal
Times == {10 * k : k \in 0..MaxTime}
Nights == 0..MaxNight
\* Angles in radians lie in [0, 2 pi); a column in some other unit goes beyond.
Angles == -1..(twopi + 1)

\* The column arrays the driver can hand to an instance.
Columns(m) ==
    IF m.kind = "TgapsMetric" THEN SeqsUpTo(Times, MaxLen)
    ELSE IF m.kind = "NightgapsMetric" THEN SeqsUpTo(Nights, MaxLen)
    ELSE IF m.kind \in AngleKinds THEN SeqsUpTo(Angles, MaxAngleLen)
    ELSE SeqsUpTo(Vals, MaxLen)

(* --------------------------- state machine ----------------------------- *)

VARIABLES
    metric,     \* the metric instance (self)
    dataSlice,  \* the column array of the slice, as the driver holds it
    result      \* what the last call of run returned or raised

vars == <<metric, dataSlice, result>>

\* The driver has constructed an instance and holds a slice; run has not
\* been called.
Init ==
    \E m \in Metrics :
        \E d \in Columns(m) :
            /\ metric = m
            /\ dataSlice = d
            /\ result = None

\* A call of run returns: the caller sees the value (or the exception) and
\* its array as the call left it.  run assigns no attribute of self.
Return(r) ==
    /\ result' = r.ret
    /\ dataSlice' = r.dataSlice
    /\ UNCHANGED metric

RunCoaddm5Metric ==
    /\ metric.kind = "Coaddm5Metric"
    /\ Return(Coaddm5Metric_run(metric, dataSlice))

RunMaxMetric ==
    /\ metric.kind = "MaxMetric"
    /\ Return(MaxMetric_run(metric, dataSlice))

RunMeanMetric ==
    /\ metric.kind = "MeanMetric"
    /\ Return(MeanMetric_run(metric, dataSlice))

RunMedianMetric ==
    /\ metric.kind = "MedianMetric"
    /\ Return(MedianMetric_run(metric, dataSlice))

RunMedianAbsMetric ==
    /\ metric.kind = "MedianAbsMetric"
    /\ Return(MedianAbsMetric_run(metric, dataSlice))

RunMinMetric ==
    /\ metric.kind = "MinMetric"
    /\ Return(MinMetric_run(metric, dataSlice))

RunFullRangeMetric ==
    /\ metric.kind = "FullRangeMetric"
    /\ Return(FullRangeMetric_run(metric, dataSlice))

RunRmsMetric ==
    /\ metric.kind = "RmsMetric"
    /\ Return(RmsMetric_run(metric, dataSlice))

RunSumMetric ==
    /\ metric.kind = "SumMetric"
    /\ Return(SumMetric_run(metric, dataSlice))

RunCountUniqueMetric ==
    /\ metric.kind = "CountUniqueMetric"
    /\ Return(CountUniqueMetric_run(metric, dataSlice))

RunCountMetric ==
    /\ metric.kind = "CountMetric"
    /\ Return(CountMetric_run(metric, dataSlice))

RunCountRatioMetric ==
    /\ metric.kind = "CountRatioMetric"
    /\ Return(CountRatioMetric_run(metric, dataSlice))

RunCountSubsetMetric ==
    /\ metric.kind = "CountSubsetMetric"
    /\ Return(CountSubsetMetric_run(metric, dataSlice))

RunRobustRmsMetric ==
    /\ metric.kind = "RobustRmsMetric"
    /\ Return(RobustRmsMetric_run(metric, dataSlice))

RunMaxPercentMetric ==
    /\ metric.kind = "MaxPercentMetric"
    /\ Return(MaxPercentMetric_run(metric, dataSlice))

RunBinaryMetric ==
    /\ metric.kind = "BinaryMetric"
    /\ Return(BinaryMetric_run(metric, dataSlice))

RunFracAboveMetric ==
    /\ metric.kind = "FracAboveMetric"
    /\ Return(FracAboveMetric_run(metric, dataSlice))

RunFracBelowMetric ==
    /\ metric.kind = "FracBelowMetric"
    /\ Return(FracBelowMetric_run(metric, dataSlice))

RunPercentileMetric ==
    /\ metric.kind = "PercentileMetric"
    /\ Return(PercentileMetric_run(metric, dataSlice))

RunNoutliersNsigmaMetric ==
    /\ metric.kind = "NoutliersNsigmaMetric"
    /\ Return(NoutliersNsigmaMetric_run(metric, dataSlice))

RunMeanAngleMetric ==
    /\ metric.kind = "MeanAngleMetric"
    /\ Return(MeanAngleMetric_run(metric, dataSlice))

RunRmsAngleMetric ==
    /\ metric.kind = "RmsAngleMetric"
    /\ Return(RmsAngleMetric_run(metric, dataSlice))

RunFullRangeAngleMetric ==
    /\ metric.kind = "FullRangeAngleMetric"
    /\ Return(FullRangeAngleMetric_run(metric, dataSlice))

RunTgapsMetric ==
    /\ metric.kind = "TgapsMetric"
    /\ Return(TgapsMetric_run(metric, dataSlice))

RunNightgapsMetric ==
    /\ metric.kind = "NightgapsMetric"
    /\ Return(NightgapsMetric_run(metric, dataSlice))

Next ==
    \/ RunCoaddm5Metric
    \/ RunMaxMetric
    \/ RunMeanMetric
    \/ RunMedianMetric
    \/ RunMedianAbsMetric
    \/ RunMinMetric
    \/ RunFullRangeMetric
    \/ RunRmsMetric
    \/ RunSumMetric
    \/ RunCountUniqueMetric
    \/ RunCountMetric
    \/ RunCountRatioMetric
    \/ RunCountSubsetMetric
    \/ RunRobustRmsMetric
    \/ RunMaxPercentMetric
    \/ RunBinaryMetric
    \/ RunFracAboveMetric
    \/ RunFracBelowMetric
    \/ RunPercentileMetric
    \/ RunNoutliersNsigmaMetric
    \/ RunMeanAngleMetric
    \/ RunRmsAngleMetric
    \/ RunFullRangeAngleMetric
    \/ RunTgapsMetric
    \/ RunNightgapsMetric

Spec == Init /\ [][Next]_vars

(* ------------------------------- claims -------------------------------- *)

HasRun == result # None
Badval == Int_(metric.badval)
NRows == Cardinality(DOMAIN dataSlice)

StatKinds ==
    {"MaxMetric", "MinMetric", "MeanMetric", "MedianMetric", "MedianAbsMetric",
     "FullRangeMetric", "RmsMetric", "RobustRmsMetric", "PercentileMetric",
     "MaxPercentMetric", "MeanAngleMetric", "RmsAngleMetric", "FullRangeAngleMetric"}

\* C1: every statistical reducer run on a slice with zero rows returns the
\* bad-value sentinel and raises nothing.
C1_EmptySliceGivesBadval ==
    (metric.kind \in StatKinds /\ NRows = 0 /\ HasRun) => result = Badval

\* C2: FracAboveMetric.run and FracBelowMetric.run on a slice with zero rows
\* do not divide by zero: they return the bad-value sentinel.
C2_FracEmptyGivesBadval ==
    (metric.kind \in {"FracAboveMetric", "FracBelowMetric"} /\ NRows = 0 /\ HasRun)
        => result = Badval

\* x lies in bin k of the edges: [edge k, edge k+1), the last bin closed.
InBin(x, bins, k) ==
    /\ bins[k].n <= x * bins[k].d
    /\ IF k = Len(bins) - 1 THEN x * bins[k + 1].d <= bins[k + 1].n
                            ELSE x * bins[k + 1].d < bins[k + 1].n

\* The histogram of the differences |col[a] - col[b]| over the pairs of rows
\* a < b: the forward differences of every pair of the sorted values.
PairHistogram(col, bins) ==
    [k \in 1..(Len(bins) - 1) |->
        Cardinality({p \in (DOMAIN col) \X (DOMAIN col) :
                        p[1] < p[2] /\ InBin(Abs(col[p[1]] - col[p[2]]), bins, k)})]

\* The histogram of the first differences of the ascending sequence s.
NeighbourHistogram(s, bins) ==
    [k \in 1..(Len(bins) - 1) |->
        Cardinality({i \in 1..(Len(s) - 1) : InBin(s[i + 1] - s[i], bins, k)})]

\* The distinct values of a column.
Distinct(col) == {col[i] : i \in DOMAIN col}
\* The ascending sequence of the values of a finite set of integers.
Ascending(S) ==
    [p \in 1..Cardinality(S) |-> CHOOSE x \in S : Cardinality({y \in S : y < x}) = p - 1]

\* C3: NightgapsMetric.run never raises; with fewer than two distinct nights
\* it returns the bad-value sentinel, and otherwise the histogram of the gaps
\* between the unique sorted nights.
C3_NightgapsBadvalOrHistogram ==
    (metric.kind = "NightgapsMetric" /\ HasRun) =>
        /\ ~IsRaise(result)
        /\ IF Cardinality(Distinct(dataSlice)) < 2 THEN result = Badval
           ELSE LET nights == Ascending(Distinct(dataSlice))
                IN  result = Hist(IF metric.allGaps
                                  THEN PairHistogram(nights, metric.bins)
                                  ELSE NeighbourHistogram(nights, metric.bins))

\* C4: TgapsMetric.run on N >= 2 rows returns the histogram of the N-1 first
\* differences of the sorted times (consecutive mode) or of the N(N-1)/2
\* forward differences of every pair of the sorted times (all-gaps mode), all
\* of them non-negative; times 10, 20, 30, 40 give the raw gaps 10, 10, 10
\* and 10, 10, 10, 20, 20, 30.
C4_TgapsHistogramOfGaps ==
    (metric.kind = "TgapsMetric" /\ NRows >= 2 /\ HasRun) =>
        LET times == Sorted(dataSlice)
            dts == Gaps(times, metric.allGaps)
        IN  /\ dts.t = "array"
            /\ \A i \in DOMAIN dts.a : dts.a[i] >= 0
            /\ Len(dts.a) = IF metric.allGaps THEN (NRows * (NRows - 1)) \div 2
                                              ELSE NRows - 1
            /\ result = Hist(IF metric.allGaps
                             THEN PairHistogram(dataSlice, metric.bins)
                             ELSE NeighbourHistogram(times, metric.bins))
            /\ times = <<10, 20, 30, 40>> =>
                   dts.a = IF metric.allGaps THEN <<10, 10, 10, 20, 20, 30>>
                                             ELSE <<10, 10, 10>>

\* C4's case: the all-gaps histogram of the unsorted times 30, 10, 40, 20
\* under the default bins has three gaps in [10, 10.5), two in [20, 20.5)
\* and one in [30, 30.5).
C4_Witness ==
    /\ metric.kind = "TgapsMetric" /\ metric.allGaps
    /\ metric.bins = TgapsDefaultBins
    /\ dataSlice = <<30, 10, 40, 20>>
    /\ result.t = "hist"
    /\ result.counts[20] = 3 /\ result.counts[40] = 2 /\ result.counts[60] = 1

NGaps == IF metric.allGaps THEN (NRows * (NRows - 1)) \div 2 ELSE NRows - 1

\* C5: TgapsMetric.run returns the bad-value sentinel when the slice has
\* fewer than 2 rows, and otherwise a vector of (number of bin edges - 1)
\* non-negative counts whose sum is at most the number of gaps.
C5_TgapsBadvalOrCounts ==
    (metric.kind = "TgapsMetric" /\ HasRun) =>
        IF NRows < 2 THEN result = Badval
        ELSE /\ result.t = "hist"
             /\ Len(result.counts) = Len(metric.bins) - 1
             /\ \A k \in DOMAIN result.counts : result.counts[k] >= 0
             /\ SumSeq(result.counts) <= NGaps

\* C5's case: a slice whose histogram drops some of its gaps.
C5_Witness ==
    /\ metric.kind = "TgapsMetric" /\ NRows >= 3
    /\ result.t = "hist"
    /\ SumSeq(result.counts) > 0
    /\ SumSeq(result.counts) < NGaps

InRadians(col) == \A i \in DOMAIN col : 0 <= col[i] /\ col[i] < twopi

MinSet(S) == CHOOSE x \in S : \A y \in S : x <= y
MaxSet(S) == CHOOSE x \in S : \A y \in S : y <= x

\* The arc from the angle a forward to the next distinct angle of S; the
\* whole circle when S holds one angle.
GapAfter(S, a) ==
    LET ds == {(b - a) % twopi : b \in S} \ {0}
    IN  IF ds = {} THEN twopi ELSE MinSet(ds)

\* The largest arc of the circle that holds no angle of S.
MaxCircGap(S) == MaxSet({GapAfter(S, a) : a \in S})

\* C6: for a non-empty array of angles in [0, 2 pi), _rotateAngles returns
\* angles in [0, 2 pi), each the input angle less the rotation (mod 2 pi); the
\* rotation is the angle that follows a largest circular gap and is mapped to
\* 0; and in the sorted rotated angles the wraparound gap 2 pi - last + first
\* is at least every gap between neighbours.  The full range of the rotated
\* angles is then 2 pi less the largest circular gap.
C6_RotateAnglesLargestGapLast ==
    (metric.kind \in {"RmsAngleMetric", "FullRangeAngleMetric"} /\ HasRun
        /\ NRows > 0 /\ InRadians(dataSlice)) =>
        LET r == rotateAngles(dataSlice)
            S == Distinct(dataSlice)
            s == Sorted(r.angles)
            wrap == twopi - s[Len(s)] + s[1]
        IN  /\ r.t = "tuple"
            /\ Len(r.angles) = NRows
            /\ \A i \in DOMAIN r.angles :
                   /\ 0 <= r.angles[i] /\ r.angles[i] < twopi
                   /\ (r.angles[i] + r.rotation - dataSlice[i]) % twopi = 0
            /\ \E i \in DOMAIN dataSlice : dataSlice[i] = r.rotation /\ r.angles[i] = 0
            /\ \E a \in S : /\ GapAfter(S, a) = MaxCircGap(S)
                            /\ (a + GapAfter(S, a)) % twopi = r.rotation
            /\ \A i \in 1..(Len(s) - 1) : s[i + 1] - s[i] <= wrap
            /\ metric.kind = "FullRangeAngleMetric" =>
                   result = Int_(twopi - MaxCircGap(S))

\* C6's case: the largest gap lies inside the sorted angles, not at the
\* wraparound, and the input is not sorted.
C6_Witness ==
    /\ metric.kind = "FullRangeAngleMetric" /\ HasRun
    /\ dataSlice = <<twopi - 1, 0, 1>>
    /\ rotateAngles(dataSlice).rotation = twopi - 1
    /\ rotateAngles(dataSlice).angles = <<0, 1, 2>>
    /\ result = Int_(2)

\* The values of col mirror each other about their mean.
Symmetric(col) ==
    LET N == Len(col)
        S == SumSeq(col)
    IN  \A i \in DOMAIN col :
            Cardinality({j \in DOMAIN col : col[j] = col[i]})
                = Cardinality({j \in DOMAIN col : N * col[j] = 2 * S - N * col[i]})

\* C7: NoutliersNsigmaMetric.run returns the number of values strictly above
\* mean + nSigma*std when nSigma >= 0 and strictly below it when nSigma < 0
\* (population standard deviation, nSigma with its sign); on values symmetric
\* about their mean the counts for nSigma and -nSigma are equal, the one of
\* values above the mean and the other of values below it.
\* With N values of sum S and V = N * (sum of squares) - S^2, the mean is S/N
\* and the standard deviation sqrt(V)/N, so x > mean + k*std is
\* N*x - S > k * sqrt(V).
C7_NoutliersCountsSignedTail ==
    (metric.kind = "NoutliersNsigmaMetric" /\ HasRun /\ NRows > 0) =>
        LET N == NRows
            S == SumSeq(dataSlice)
            V == N * SumSeq([i \in DOMAIN dataSlice |-> dataSlice[i] * dataSlice[i]]) - S * S
            k == metric.nSigma
            L(i) == N * dataSlice[i] - S
            outside(i) == IF k >= 0 THEN L(i) > 0 /\ L(i) * L(i) > k * k * V
                                    ELSE L(i) < 0 /\ L(i) * L(i) > k * k * V
            other == NoutliersNsigmaMetric_run([metric EXCEPT !.nSigma = -k], dataSlice)
        IN  /\ result = Int_(Cardinality({i \in DOMAIN dataSlice : outside(i)}))
            /\ \A i \in DOMAIN dataSlice :
                   outside(i) => IF k >= 0 THEN N * dataSlice[i] > S
                                           ELSE N * dataSlice[i] < S
            /\ Symmetric(dataSlice) => other.ret = result

\* C7's case: a negative nSigma on values symmetric about their mean, with a
\* value beyond the boundary on each side.
C7_Witness ==
    /\ metric.kind = "NoutliersNsigmaMetric" /\ metric.nSigma = -1
    /\ dataSlice = <<1, 0, -1, 0>>
    /\ Symmetric(dataSlice)
    /\ result = Int_(1)
    /\ NoutliersNsigmaMetric_run([metric EXCEPT !.nSigma = 1], dataSlice).ret = Int_(1)

\* C8: on a non-empty slice of N values FracAboveMetric.run returns
\* scale * (number of values >= cutoff) / N and FracBelowMetric.run returns
\* scale * (number of values <= cutoff) / N; with cutoff 0.5 and scale 1 on
\* 0, 0, 1, 1 both return 0.5.
C8_FracIsScaledCountOverN ==
    (metric.kind \in {"FracAboveMetric", "FracBelowMetric"} /\ HasRun /\ NRows > 0) =>
        LET c == metric.cutoff
            cnt == IF metric.kind = "FracAboveMetric"
                   THEN Cardinality({i \in DOMAIN dataSlice : dataSlice[i] * c.d >= c.n})
                   ELSE Cardinality({i \in DOMAIN dataSlice : dataSlice[i] * c.d <= c.n})
        IN  /\ result.t = "num"
            /\ result.n * (NRows * metric.scale.d) = metric.scale.n * cnt * result.d
            /\ (c = [n |-> 1, d |-> 2] /\ metric.scale = [n |-> 1, d |-> 1]
                    /\ dataSlice = <<0, 0, 1, 1>>)
                   => result = [t |-> "num", n |-> 1, d |-> 2]

\* C8's case: the example of the specification.
C8_Witness ==
    /\ metric.kind = "FracAboveMetric"
    /\ metric.cutoff = [n |-> 1, d |-> 2] /\ metric.scale = [n |-> 1, d |-> 1]
    /\ dataSlice = <<0, 0, 1, 1>>
    /\ result = [t |-> "num", n |-> 1, d |-> 2]

\* C9: CountMetric.run returns the number of rows of the slice; on a slice
\* with zero rows it returns 0 and raises nothing.
C9_CountIsNumberOfRows ==
    (metric.kind = "CountMetric" /\ HasRun) =>
        /\ ~IsRaise(result)
        /\ result = [t |-> "num", n |-> NRows, d |-> 1]
        /\ NRows = 0 => result = [t |-> "num", n |-> 0, d |-> 1]

\* C9's case: the count of a slice with zero rows.
C9_Witness ==
    /\ metric.kind = "CountMetric"
    /\ dataSlice = <<>>
    /\ result = [t |-> "num", n |-> 0, d |-> 1]

\* C10: no call of run changes the configuration of the instance or the rows
\* (or their order) of the slice it is given, and a call repeated on the
\* slice returns what the call before it returned.
C10_RunLeavesInstanceAndSliceAlone ==
    [][/\ metric' = metric
       /\ dataSlice' = dataSlice
       /\ HasRun => result' = result]_vars

\* C10's case: TgapsMetric has histogrammed a slice whose times are not in
\* ascending order, so that its sort had rows to move.
C10_Witness ==
    /\ metric.kind = "TgapsMetric"
    /\ result.t = "hist"
    /\ dataSlice # Sorted(dataSlice)

\* C11: on a non-empty array _rotateAngles, and with it RmsAngleMetric.run
\* and FullRangeAngleMetric.run, fails (a ValueError, no result) exactly when
\* the wraparound gap 2 pi - max(angles) + min(angles) is negative, that is
\* when the angles span more than 2 pi; with a span of at most 2 pi the call
\* returns a value.
C11_RotateAnglesFailsIffSpanOverTwoPi ==
    (metric.kind \in {"RmsAngleMetric", "FullRangeAngleMetric"} /\ HasRun /\ NRows > 0) =>
        LET hi == MaxSet(Distinct(dataSlice))
            lo == MinSet(Distinct(dataSlice))
        IN  /\ IsRaise(result) <=> twopi - hi + lo < 0
            /\ IsRaise(result) <=> hi - lo > twopi
            /\ IsRaise(result) <=> IsRaise(rotateAngles(dataSlice))
            /\ IsRaise(result) => result = [t |-> "raise", exc |-> "ValueError"]
            /\ ~IsRaise(result) => result.t \in {"num", "sqrt"}

\* C11's case: two angles more than 2 pi apart, given to RmsAngleMetric.
C11_Witness ==
    /\ metric.kind = "RmsAngleMetric"
    /\ dataSlice = <<twopi + 1, 0>>
    /\ result = [t |-> "raise", exc |-> "ValueError"]

====
